---------------------------- MODULE Spec2Model ----------------------------
(***************************************************************************)
(* Model of pyxtal/operations.py: periodic distances, proximity checks and *)
(* the classification of symmetry operations.                              *)
(*                                                                         *)
(* Numbers.  Fractional coordinates are fixed-point integers in units of   *)
(* 1/Unit of a cell edge; lattice matrices have integer entries, so a      *)
(* Cartesian length is an integer in units of 1/Unit.  A Euclidean         *)
(* distance is carried by its square (sqrt is monotone, so every minimum   *)
(* and every comparison of distances is decided on the squares).  Angles   *)
(* are exact fractions <<p, q>> of a full turn (angle = 2*pi*p/q).         *)
(*                                                                         *)
(* Every function of the module is one action.  An initial state holds    *)
(* the function about to be called (fn) and its arguments (args), drawn    *)
(* from bounded sets; the action runs the call, leaving in args the        *)
(* caller's objects as they stand after it and in ret what came back.      *)
(***************************************************************************)
EXTENDS Integers, Sequences, FiniteSets, TLC

VARIABLES pc, fn, args, ret

vars == <<pc, fn, args, ret>>

(* fixed-point resolution of a fractional coordinate: hundredths *)
Unit == 10 * 10

-----------------------------------------------------------------------------
(* Python values that are not plain numbers or arrays *)
PyBool(b) == [type |-> "bool", val |-> b]
PyNone == [type |-> "NoneType"]
PyRaise(e) == [type |-> "exception", val |-> e]
PyFloat(x) == [type |-> "float", val |-> x]
PyInt(n) == [type |-> "int", val |-> n]
PyStr(t) == [type |-> "str", val |-> t]

-----------------------------------------------------------------------------
(* numpy helpers on 3-vectors and 3x3 matrices (rows are lattice vectors) *)
Abs(x) == IF x < 0 THEN -x ELSE x

SetMin(S) == CHOOSE m \in S : \A x \in S : m <= x

VecAdd(a, b) == <<a[1] + b[1], a[2] + b[2], a[3] + b[3]>>

VecSub(a, b) == <<a[1] - b[1], a[2] - b[2], a[3] - b[3]>>

VecScale(k, a) == <<k * a[1], k * a[2], k * a[3]>>

(* np.dot(v, lattice): row vector times matrix *)
Dot(v, lattice) ==
    << v[1] * lattice[1][1] + v[2] * lattice[2][1] + v[3] * lattice[3][1],
       v[1] * lattice[1][2] + v[2] * lattice[2][2] + v[3] * lattice[3][2],
       v[1] * lattice[1][3] + v[2] * lattice[2][3] + v[3] * lattice[3][3] >>

(* squared Euclidean norm: the square of one cdist entry *)
Norm2(v) == v[1] * v[1] + v[2] * v[2] + v[3] * v[3]

Eye3 == << <<1, 0, 0>>, <<0, 1, 0>>, <<0, 0, 1>> >>

-----------------------------------------------------------------------------
(* mutant of AxisList: the -1 offset is missing from a periodic axis *)
AxisList_no_negative(p) == IF p = 0 THEN <<0>> ELSE <<0, 1>>

(* create_matrix: the offsets, in the order of the three nested loops *)
AxisList(p) == IF p = 0 THEN <<0>> ELSE <<-1, 0, 1>>

(* mutant of create_matrix: the images are forgotten, only the zero offset *)
create_matrix_zero_only(PBC) == << <<0, 0, 0>> >>

create_matrix(PBC) ==
    LET il == AxisList(PBC[1])
        jl == AxisList(PBC[2])
        kl == AxisList(PBC[3])
        nj == Len(jl)
        nk == Len(kl)
    IN  [n \in 1..(Len(il) * nj * nk) |->
            << il[((n - 1) \div (nj * nk)) + 1],
               jl[(((n - 1) \div nk) % nj) + 1],
               kl[((n - 1) % nk) + 1] >>]

(* np.floor of a fixed-point value, in whole cells *)
Floor(x) == x \div Unit

(* filter_vector: vector - floor(vector) * PBC, component by component *)
filter_vector(vector, PBC) ==
    [i \in 1..3 |-> vector[i] - Floor(vector[i]) * Unit * PBC[i]]

(* filtered_coords on a single point *)
filtered_coords(coords, PBC) == filter_vector(coords, PBC)

(* filtered_coords on an array of points *)
filtered_coords_multi(coords, PBC) ==
    [i \in 1..Len(coords) |-> filter_vector(coords[i], PBC)]

(* distance: squared minimum over the enumerated offsets *)
distance(xyz, lattice, PBC) ==
    LET f == filtered_coords(xyz, PBC)
        matrix == create_matrix(PBC)
        moved == [n \in 1..Len(matrix) |-> VecAdd(VecScale(Unit, matrix[n]), f)]
        cart == [n \in 1..Len(matrix) |-> Dot(moved[n], lattice)]
    IN  SetMin({Norm2(cart[n]) : n \in 1..Len(matrix)})


(* cdist(l1, l2): squared pairwise distances between two Cartesian arrays *)
cdist(l1, l2) ==
    [i \in 1..Len(l1) |-> [j \in 1..Len(l2) |-> Norm2(VecSub(l1[i], l2[j]))]]

(* the periodic branch shared by both lattice cases of distance_matrix:   *)
(* fold both sets, translate the first by every offset, take the minimum  *)
PeriodicMatrix(points1, points2, lattice, PBC) ==
    LET l1 == filtered_coords_multi(points1, PBC)
        l2 == filtered_coords_multi(points2, PBC)
        c2 == [j \in 1..Len(l2) |-> Dot(l2[j], lattice)]
        matrix == create_matrix(PBC)
        m1 == [n \in 1..Len(matrix) |->
                 [i \in 1..Len(l1) |->
                    Dot(VecAdd(l1[i], VecScale(Unit, matrix[n])), lattice)]]
        all_distances == [n \in 1..Len(matrix) |-> cdist(m1[n], c2)]
    IN  [i \in 1..Len(l1) |-> [j \in 1..Len(l2) |->
            SetMin({all_distances[n][i][j] : n \in 1..Len(matrix)})]]

(* distance_matrix: an identity lattice is replaced by None, and the None *)
(* branches skip the product with the lattice                             *)
distance_matrix(points1, points2, lattice, PBC) ==
    IF lattice # Eye3
    THEN IF PBC # <<0, 0, 0>>
         THEN PeriodicMatrix(points1, points2, lattice, PBC)
         ELSE cdist([i \in 1..Len(points1) |-> Dot(points1[i], lattice)],
                    [j \in 1..Len(points2) |-> Dot(points2[j], lattice)])
    ELSE IF PBC # <<0, 0, 0>>
         THEN PeriodicMatrix(points1, points2, Eye3, PBC)
         ELSE cdist(points1, points2)

-----------------------------------------------------------------------------
(* Inputs *)

(* how far the reference search for the nearest image looks on each axis *)
MaxImage == 2

(* largest number of points in a point set *)
MaxPts == 3

Flags == {<<a, b, c>> : a \in {0, 1}, b \in {0, 1}, c \in {0, 1}}

Cubic10 == << <<10, 0, 0>>, <<0, 10, 0>>, <<0, 0, 10>> >>

Ortho == << <<2, 0, 0>>, <<0, 3, 0>>, <<0, 0, 4>> >>

Skew == << <<1, 0, 0>>, <<5, 1, 0>>, <<0, 0, 1>> >>

Triclinic == << <<2, 0, 0>>, <<1, 2, 0>>, <<1, 1, 2>> >>

Lattices == {Eye3, Cubic10, Ortho, Skew, Triclinic}

FracVals == {-125, -50, 0, 50, 99, 150}

Displacements == {<<x, y, z>> : x \in FracVals, y \in FracVals, z \in FracVals}

(* the points that point sets are made of, in a fixed order *)
PointPool ==
    << <<0, 0, 0>>, <<99, 0, 0>>, <<50, 50, 0>>, <<-25, 125, 50>>, <<150, -50, 99>> >>

(* the members of a set of indices, in increasing order *)
RECURSIVE SortedSeq(_)
SortedSeq(S) ==
    IF S = {} THEN <<>>
    ELSE LET m == SetMin(S) IN <<m>> \o SortedSeq(S \ {m})

(* the point sets of at most MaxPts points, each in pool order *)
PointSets ==
    {[i \in 1..Len(SortedSeq(S)) |-> PointPool[SortedSeq(S)[i]]] :
        S \in {T \in SUBSET (1..Len(PointPool)) : T # {} /\ Cardinality(T) <= MaxPts}}

MatrixLattices == {Eye3, Cubic10, Skew}

MatrixFlags == {<<0, 0, 0>>, <<1, 0, 0>>, <<1, 1, 0>>, <<1, 1, 1>>}

-----------------------------------------------------------------------------
(* Calls *)

(* before a call: the function and its arguments are chosen *)
InitDist ==
    /\ pc = "idle"
    /\ ret = <<>>
    /\ \/ /\ fn = "distance"
          /\ args \in [xyz : Displacements, lattice : Lattices, PBC : Flags]
       \/ /\ fn = "distance_matrix"
          /\ args \in [points1 : PointSets, points2 : PointSets,
                       lattice : MatrixLattices, PBC : MatrixFlags]

CallDistance ==
    /\ pc = "idle"
    /\ fn = "distance"
    /\ ret' = distance(args.xyz, args.lattice, args.PBC)
    /\ pc' = "done"
    /\ UNCHANGED <<fn, args>>

CallDistanceMatrix ==
    /\ pc = "idle"
    /\ fn = "distance_matrix"
    /\ ret' = distance_matrix(args.points1, args.points2, args.lattice, args.PBC)
    /\ pc' = "done"
    /\ UNCHANGED <<fn, args>>

NextDist == CallDistance \/ CallDistanceMatrix

SpecDist == InitDist /\ [][NextDist]_vars

-----------------------------------------------------------------------------
(* Reference notions used to state the distance claims *)

IsDiagonal(lattice) ==
    \A i \in 1..3, j \in 1..3 : i # j => lattice[i][j] = 0

(* integer translations that vanish on the non-periodic axes *)
Images(PBC, k) ==
    {<<a, b, c>> : a \in IF PBC[1] = 0 THEN {0} ELSE -k..k,
                   b \in IF PBC[2] = 0 THEN {0} ELSE -k..k,
                   c \in IF PBC[3] = 0 THEN {0} ELSE -k..k}

(* squared norm of the nearest image of d among the translations within k *)
NearestImage(d, lattice, PBC, k) ==
    SetMin({Norm2(Dot(VecAdd(d, VecScale(Unit, n)), lattice)) : n \in Images(PBC, k)})

CalledDistance == pc = "done" /\ fn = "distance"

CalledMatrix == pc = "done" /\ fn = "distance_matrix"

(* C1 (as stated): distance(d) = distance(filtered_coords(d)) and the value *)
(* is the norm of the nearest periodic image of d over all integer         *)
(* translations, whatever the lattice.                                     *)
C1_NearestImageAnyLattice ==
    CalledDistance =>
        /\ ret = distance(filtered_coords(args.xyz, args.PBC), args.lattice, args.PBC)
        /\ ret = NearestImage(args.xyz, args.lattice, args.PBC, MaxImage)

(* C1 (amended): distance(d) = distance(filtered_coords(d)); the value is   *)
(* the minimum of |(fold(d) + n).L| over the offsets n with components in   *)
(* {-1,0,1} (0 on non-periodic axes); and for a diagonal lattice that is    *)
(* the norm of the nearest periodic image over all integer translations.    *)
C1_DistanceMinImage ==
    CalledDistance =>
        /\ ret = distance(filtered_coords(args.xyz, args.PBC), args.lattice, args.PBC)
        /\ ret = NearestImage(filtered_coords(args.xyz, args.PBC), args.lattice, args.PBC, 1)
        /\ IsDiagonal(args.lattice) =>
              ret = NearestImage(args.xyz, args.lattice, args.PBC, MaxImage)

(* C1 witness: a displacement outside the cell, folded, whose nearest image *)
(* in a diagonal non-identity lattice is not the folded point itself.       *)
C1_Witness ==
    /\ CalledDistance
    /\ args.PBC = <<1, 1, 1>>
    /\ args.lattice = Ortho
    /\ filtered_coords(args.xyz, args.PBC) # args.xyz
    /\ ret < Norm2(Dot(filtered_coords(args.xyz, args.PBC), args.lattice))
    /\ ret > 0

-----------------------------------------------------------------------------
(* a squared length sq (units of 1/Unit) is within 5% of the length t/Unit *)
ApproxLength(sq, t) == (19 * t) * (19 * t) <= 400 * sq /\ 400 * sq <= (21 * t) * (21 * t)

(* the end-to-end example: [0,0,0] and [0.99,0,0], cubic cell of edge 10 *)
C2_ScalarCase ==
    /\ CalledDistance
    /\ args.xyz = <<99, 0, 0>>
    /\ args.lattice = Cubic10
    /\ args.PBC = <<1, 1, 1>>

C2_MatrixCase ==
    /\ CalledMatrix
    /\ args.points1 = << <<0, 0, 0>> >>
    /\ args.points2 = << <<99, 0, 0>> >>
    /\ args.lattice = Cubic10
    /\ args.PBC = <<1, 1, 1>>

(* C2 (as stated): in the example the minimum-image distance, from distance *)
(* and from the distance_matrix entry, is about 1.0 and not 9.9.            *)
C2_AboutOne ==
    /\ C2_ScalarCase => (ApproxLength(ret, 100) /\ ~ApproxLength(ret, 990))
    /\ C2_MatrixCase => (ApproxLength(ret[1][1], 100) /\ ~ApproxLength(ret[1][1], 990))

(* C2 (amended): in the example the minimum-image distance, from distance   *)
(* and from the distance_matrix entry, is about 0.1 (= 0.01 * 10), not 9.9. *)
C2_AboutOneTenth ==
    /\ C2_ScalarCase => (ApproxLength(ret, 10) /\ ~ApproxLength(ret, 990))
    /\ C2_MatrixCase => (ApproxLength(ret[1][1], 10) /\ ~ApproxLength(ret[1][1], 990))

(* C2 witness: the matrix of the example has been computed *)
C2_Witness == C2_MatrixCase /\ ret[1][1] = 100

(* C3: distance_matrix(A, B)[i][j] = distance_matrix(B, A)[j][i] for every  *)
(* i, j, lattice and flags.                                                 *)
C3_SwapSymmetry ==
    CalledMatrix =>
        LET swapped == distance_matrix(args.points2, args.points1, args.lattice, args.PBC)
        IN  \A i \in 1..Len(args.points1), j \in 1..Len(args.points2) :
                ret[i][j] = swapped[j][i]

(* C3 witness: two different sets in a skewed periodic lattice, with an     *)
(* entry whose minimum is reached by a translated copy of the first point   *)
C3_Witness ==
    /\ CalledMatrix
    /\ args.lattice = Skew
    /\ args.PBC = <<1, 1, 1>>
    /\ Len(args.points1) = 2
    /\ Len(args.points2) = 2
    /\ args.points1 # args.points2
    /\ \E i \in 1..2, j \in 1..2 :
          ret[i][j] < Norm2(Dot(VecSub(filtered_coords(args.points1[i], args.PBC),
                                       filtered_coords(args.points2[j], args.PBC)),
                                args.lattice))

-----------------------------------------------------------------------------
(* Proximity checks *)

(* covalent radii, in units of 1/Unit (0.31 and 0.76 for a cell in Angstrom) *)
covalent_radius == [H |-> 31, C |-> 76]

Species == DOMAIN covalent_radius

(* Tol_matrix(prototype="atomic").get_tol: a symmetric table of pairwise    *)
(* tolerances; the value is carried doubled (2 * tol, in units of 1/Unit)   *)
get_tol(specie1, specie2) == covalent_radius[specie1] + covalent_radius[specie2]

(* d < tol, for a squared distance sq and a doubled tolerance tol2 *)
Below(sq, tol2) == 4 * sq < tol2 * tol2

(* check_distance: d_factor is accepted and never used *)
check_distance(coord1, coord2, species1, species2, lattice, PBC, d_factor) ==
    IF Len(coord1) < 1 \/ Len(coord2) < 1
    THEN PyBool(TRUE)
    ELSE LET tols == [i1 \in 1..Len(species1) |-> [i2 \in 1..Len(species2) |->
                         get_tol(species1[i1], species2[i2])]]
             d == distance_matrix(coord1, coord2, lattice, PBC)
         IN  IF \E i \in 1..Len(coord1), j \in 1..Len(coord2) : Below(d[i][j], tols[i][j])
             THEN PyBool(FALSE)
             ELSE PyBool(TRUE)

(* verify_distances: the name Element is bound nowhere in the module, so    *)
(* the first pair j > i raises NameError after its distance is computed     *)
verify_distances(coordinates, species, lattice, factor, PBC) ==
    IF \E i \in 1..Len(coordinates), j \in 1..Len(coordinates) : j > i
    THEN PyRaise("NameError")
    ELSE PyBool(TRUE)

(* mutant of TileColumn: np.repeat instead of np.tile *)
TileColumn_repeat(c, n, reps) == ((c - 1) \div reps) + 1

(* np.tile(tols, reps): column c of the tiled matrix is column TileColumn   *)
(* of the n-column matrix tols                                              *)
TileColumn(c, n, reps) == ((c - 1) % n) + 1

(* the offsets of create_matrix without [0,0,0], in order *)
NonZeroOffsets(PBC) == SelectSeq(create_matrix(PBC), LAMBDA v : v # <<0, 0, 0>>)

(* check_images; tol is None or a distance in units of 1/Unit.  coords is  *)
(* a non-empty list of points (np.array of an empty list is not an N x 3  *)
(* array and the sum coords + v is then refused by numpy)                 *)
check_images(coords, species, lattice, PBC, tol, d_factor) ==
    IF PBC = <<0, 0, 0>>
    THEN PyBool(TRUE)
    ELSE LET m == NonZeroOffsets(PBC)
             n == Len(coords)
             new_coords == [c \in 1..(Len(m) * n) |->
                              VecAdd(coords[((c - 1) % n) + 1],
                                     VecScale(Unit, m[((c - 1) \div n) + 1]))]
             dm == distance_matrix(coords, new_coords, lattice, <<0, 0, 0>>)
             tols == [i \in 1..Len(species) |-> [j \in 1..Len(species) |->
                         IF i <= j THEN get_tol(species[i], species[j])
                                   ELSE get_tol(species[j], species[i])]]
             reps == Len(new_coords) \div Len(coords)
             tols2 == [i \in 1..n |-> [c \in 1..(n * reps) |->
                          tols[i][TileColumn(c, n, reps)]]]
         IN  IF tol.type = "NoneType"
             THEN IF \E i \in 1..n, c \in 1..Len(new_coords) : Below(dm[i][c], tols2[i][c])
                  THEN PyBool(FALSE)
                  ELSE PyBool(TRUE)
             ELSE IF \E i \in 1..n, c \in 1..Len(new_coords) : dm[i][c] < tol.val * tol.val
                  THEN PyBool(FALSE)
                  ELSE PyBool(TRUE)

(* the slack added to the smallest distance by find_short_dist is 1/SlackDen *)
SlackDen == 1000

(* d <= d_min + 1e-3 for squared distances a = (Unit*d)^2, b = (Unit*d_min)^2: *)
(* with K = SlackDen/Unit, K*sqrt(a) <= K*sqrt(b) + 1, squared twice.  Exact   *)
(* for b < 4000000 (d_min < 20); a - b > 400 is then beyond the slack.         *)
WithinSlack(a, b) ==
    LET K == SlackDen \div Unit
        g == K * K * (a - b) - 1
    IN  \/ a <= b
        \/ a - b <= 400 /\ g * g <= 4 * K * K * b

(* np.where(d <= tol): the positions of the matching entries, row by row *)
WhereLeq(d, n, tol) ==
    SelectSeq([k \in 1..(n * n) |-> <<((k - 1) \div n) + 1, ((k - 1) % n) + 1>>],
              LAMBDA rc : d[rc[1]][rc[2]] <= tol * tol)

(* mutant of PairColumn: the column is read from the matches of row i *)
PairColumn_of_row(ijs, i) ==
    LET own == SelectSeq(ijs, LAMBDA rc : rc[1] = i /\ rc[2] > i)
    IN  IF own = <<>> THEN i ELSE own[1][2]

(* j = ijs[1][i]: the column of the match at POSITION i of the flat list of *)
(* matches, i being a row index (indices are 1-based here, 0-based there)   *)
PairColumn(ijs, i) == ijs[i][2]

(* the pairs appended by the loop over np.unique(ijs[0]), in row order *)
RawPairs(d, ijs) ==
    LET rows == SortedSeq({ijs[k][1] : k \in 1..Len(ijs)})
        kept == SelectSeq(rows, LAMBDA i : PairColumn(ijs, i) > i)
    IN  [k \in 1..Len(kept) |->
            <<kept[k], PairColumn(ijs, kept[k]), d[kept[k]][PairColumn(ijs, kept[k])]>>]

(* pairs[pairs[:,-1] <= min(pairs[:,-1]) + 1e-3], when there is a pair *)
Narrowed(pairs) ==
    IF Len(pairs) > 0
    THEN SelectSeq(pairs,
                   LAMBDA pr : WithinSlack(pr[3], SetMin({pairs[k][3] : k \in 1..Len(pairs)})))
    ELSE pairs

(* graph[v]: the partners of v, in the order of the pairs *)
Neighbours(pairs, v) ==
    LET touching == SelectSeq(pairs, LAMBDA pr : pr[1] = v \/ pr[2] = v)
    IN  [k \in 1..Len(touching) |->
            IF touching[k][1] = v THEN touching[k][2] ELSE touching[k][1]]

(* find_short_dist; tol in units of 1/Unit, tol >= 0, coor non-empty.  The  *)
(* third entry of a pair is the squared distance.                           *)
find_short_dist(coor, lattice, tol, PBC) ==
    LET d == distance_matrix(coor, coor, lattice, PBC)
        pairs == Narrowed(RawPairs(d, WhereLeq(d, Len(coor), tol)))
    IN  [pairs |-> pairs, graph |-> [v \in 1..Len(coor) |-> Neighbours(pairs, v)]]

-----------------------------------------------------------------------------
(* Inputs of the proximity checks *)

(* the atoms that labelled point sets are made of, in a fixed order *)
AtomPool ==
    << [coord |-> <<0, 0, 0>>, specie |-> "C"],
       [coord |-> <<50, 0, 0>>, specie |-> "C"],
       [coord |-> <<99, 0, 0>>, specie |-> "H"],
       [coord |-> <<-25, 125, 50>>, specie |-> "H"],
       [coord |-> <<40, 0, 0>>, specie |-> "H"] >>

(* lists of at most MaxPts atoms, in pool order, the empty list included *)
AtomLists ==
    {[i \in 1..Len(SortedSeq(S)) |-> AtomPool[SortedSeq(S)[i]]] :
        S \in {T \in SUBSET (1..Len(AtomPool)) : Cardinality(T) <= MaxPts}}

CoordsOf(atoms) == [i \in 1..Len(atoms) |-> atoms[i].coord]

SpeciesOf(atoms) == [i \in 1..Len(atoms) |-> atoms[i].specie]

ProxLattices == {Eye3, Ortho}

(* d_factor and factor inputs, as fractions <<numerator, denominator>> *)
Factors == {<<1, 1>>, <<2, 1>>}

(* points on a line, 0.1 apart, and one near the far cell face *)
ChainPool == {<<0, 0, 0>>, <<10, 0, 0>>, <<20, 0, 0>>, <<95, 0, 0>>}

(* lists of at most MaxPts different points of the chain, in any order *)
ChainLists ==
    {c \in UNION {[1..k -> ChainPool] : k \in 1..MaxPts} :
        \A i \in 1..Len(c), j \in 1..Len(c) : i # j => c[i] # c[j]}

(* tol inputs of find_short_dist, in units of 1/Unit *)
ShortTols == {15, 25}

InitProx ==
    /\ pc = "idle"
    /\ ret = <<>>
    /\ \/ /\ fn = "check_distance"
          /\ args \in [atoms1 : AtomLists, atoms2 : AtomLists, lattice : ProxLattices,
                       PBC : MatrixFlags, d_factor : Factors]
       \/ /\ fn = "verify_distances"
          /\ args \in [atoms : AtomLists, lattice : ProxLattices,
                       factor : Factors, PBC : MatrixFlags]
       \/ /\ fn = "check_images"
          /\ args \in [atoms : AtomLists \ {<<>>}, lattice : ProxLattices, PBC : Flags,
                       tol : {PyNone, PyFloat(50)}, d_factor : {<<1, 1>>}]
       \/ /\ fn = "find_short_dist"
          /\ args \in [coor : ChainLists, lattice : ProxLattices,
                       tol : ShortTols, PBC : MatrixFlags]

CallCheckDistance ==
    /\ pc = "idle"
    /\ fn = "check_distance"
    /\ ret' = check_distance(CoordsOf(args.atoms1), CoordsOf(args.atoms2),
                             SpeciesOf(args.atoms1), SpeciesOf(args.atoms2),
                             args.lattice, args.PBC, args.d_factor)
    /\ pc' = "done"
    /\ UNCHANGED <<fn, args>>

CallVerifyDistances ==
    /\ pc = "idle"
    /\ fn = "verify_distances"
    /\ ret' = verify_distances(CoordsOf(args.atoms), SpeciesOf(args.atoms),
                               args.lattice, args.factor, args.PBC)
    /\ pc' = "done"
    /\ UNCHANGED <<fn, args>>

CallCheckImages ==
    /\ pc = "idle"
    /\ fn = "check_images"
    /\ ret' = check_images(CoordsOf(args.atoms), SpeciesOf(args.atoms),
                           args.lattice, args.PBC, args.tol, args.d_factor)
    /\ pc' = "done"
    /\ UNCHANGED <<fn, args>>

CallFindShortDist ==
    /\ pc = "idle"
    /\ fn = "find_short_dist"
    /\ ret' = find_short_dist(args.coor, args.lattice, args.tol, args.PBC)
    /\ pc' = "done"
    /\ UNCHANGED <<fn, args>>

NextProx ==
    \/ CallCheckDistance
    \/ CallVerifyDistances
    \/ CallCheckImages
    \/ CallFindShortDist

SpecProx == InitProx /\ [][NextProx]_vars

-----------------------------------------------------------------------------
(* Reference notions used to state the proximity claims *)

Called(name) == pc = "done" /\ fn = name

Range(seq) == {seq[k] : k \in 1..Len(seq)}

(* d < f * tol, for a squared distance sq, a doubled tolerance tol2 and a  *)
(* factor f = <<numerator, denominator>>                                   *)
BelowScaled(sq, tol2, f) == 4 * sq * f[2] * f[2] < f[1] * f[1] * tol2 * tol2

(* C4: check_distance returns True when coord1 or coord2 is empty;          *)
(* otherwise False iff some distance_matrix entry [i][j] is below           *)
(* d_factor * tm.get_tol(species1[i], species2[j]), for every d_factor.     *)
C4_ScaledTolerance ==
    Called("check_distance") =>
        LET coord1 == CoordsOf(args.atoms1)
            coord2 == CoordsOf(args.atoms2)
            d == distance_matrix(coord1, coord2, args.lattice, args.PBC)
        IN  IF Len(coord1) = 0 \/ Len(coord2) = 0
            THEN ret = PyBool(TRUE)
            ELSE ret = PyBool(~ \E i \in 1..Len(coord1), j \in 1..Len(coord2) :
                                  BelowScaled(d[i][j],
                                              get_tol(args.atoms1[i].specie, args.atoms2[j].specie),
                                              args.d_factor))

(* the Cartesian squared distance between point a and point b moved by the *)
(* whole-cell translation v, with no folding                               *)
ImageDistance(a, b, v, lattice) ==
    Norm2(Dot(VecSub(a, VecAdd(b, VecScale(Unit, v))), lattice))

C6_ShortPairs ==
    Called("find_short_dist") =>
        LET n == Len(args.coor)
            d == distance_matrix(args.coor, args.coor, args.lattice, args.PBC)
            close == {ij \in (1..n) \X (1..n) :
                         ij[1] < ij[2] /\ d[ij[1]][ij[2]] <= args.tol * args.tol}
            tight == {ij \in close :
                         WithinSlack(d[ij[1]][ij[2]],
                                     SetMin({d[c[1]][c[2]] : c \in close}))}
        IN  /\ Range(ret.pairs) = {<<ij[1], ij[2], d[ij[1]][ij[2]]>> : ij \in tight}
            /\ Len(ret.pairs) = Cardinality(tight)
            /\ \A v \in 1..n :
                  /\ Range(ret.graph[v]) =
                        {w \in 1..n : <<v, w>> \in tight \/ <<w, v>> \in tight}
                  /\ Len(ret.graph[v]) = Cardinality(Range(ret.graph[v]))

(* C7: verify_distances returns a boolean for every input: False iff some   *)
(* pair i < j has distance(c_j - c_i) below factor * 0.5 * (covalent radius *)
(* of species[i] + covalent radius of species[j]), and True otherwise.      *)
C7_VerifyBoolean ==
    Called("verify_distances") =>
        ret = PyBool(~ \E i \in 1..Len(args.atoms), j \in 1..Len(args.atoms) :
                          /\ i < j
                          /\ BelowScaled(distance(VecSub(args.atoms[j].coord, args.atoms[i].coord),
                                                  args.lattice, args.PBC),
                                         covalent_radius[args.atoms[i].specie]
                                             + covalent_radius[args.atoms[j].specie],
                                         args.factor))

-----------------------------------------------------------------------------
(* Symmetry operations.  A linear part is a 3x3 integer matrix; an angle is *)
(* a fraction <<p, q>> of a full turn, q > 0.                               *)

Transpose(m) == [i \in 1..3 |-> [j \in 1..3 |-> m[j][i]]]

MatMul(a, b) ==
    [i \in 1..3 |-> [j \in 1..3 |-> a[i][1] * b[1][j] + a[i][2] * b[2][j] + a[i][3] * b[3][j]]]

Negated(m) == [i \in 1..3 |-> [j \in 1..3 |-> -m[i][j]]]

(* np.linalg.det *)
Det(m) ==
      m[1][1] * (m[2][2] * m[3][3] - m[2][3] * m[3][2])
    - m[1][2] * (m[2][1] * m[3][3] - m[2][3] * m[3][1])
    + m[1][3] * (m[2][1] * m[3][2] - m[2][2] * m[3][1])

Trace(m) == m[1][1] + m[2][2] + m[3][3]

(* is_orthogonal: m.mT and mT.m are both close to the identity; entries are *)
(* integers, and two integers within 1e-8 + tol*|b| < 1 of each other are   *)
(* equal                                                                    *)
is_orthogonal(m) ==
    /\ MatMul(m, Transpose(m)) = Eye3
    /\ MatMul(Transpose(m), m) = Eye3

(* the norm of Rotation.from_matrix(m).as_rotvec() for a proper rotation   *)
(* with integer entries: trace = 1 + 2 cos(angle), in turns                *)
RotvecAngle(m) ==
    CASE Trace(m) = 3 -> <<0, 1>>
      [] Trace(m) = 1 -> <<1, 4>>
      [] Trace(m) = 0 -> <<1, 3>>
      [] Trace(m) = -1 -> <<1, 2>>

(* the largest order tried by get_order: range(1, 61) *)
MaxOrder == 60

(* x = n*angle/(2*pi), y = x - np.round(x), abs(y) <= tol, for the angle    *)
(* <<p, q>> and tol = <<numerator, denominator>>                            *)
CloseToInteger(n, angle, tol) ==
    LET r == (n * angle[1]) % angle[2]
        y == IF 2 * r <= angle[2] THEN r ELSE angle[2] - r
    IN  y * tol[2] <= tol[1] * angle[2]

(* mutant of OrderOf: the order of an odd rotoinversion is not doubled *)
OrderOf_never_doubled(n, rotoinversion) == PyInt(n)

(* the value returned once n is found *)
OrderOf(n, rotoinversion) ==
    IF rotoinversion
    THEN IF n % 2 = 1 THEN PyInt(n * 2) ELSE PyInt(n)
    ELSE PyInt(n)

(* OperationAnalyzer.get_order *)
get_order(angle, rotoinversion, tol) ==
    LET hits == {n \in 1..MaxOrder : CloseToInteger(n, angle, tol)}
    IN  IF hits # {}
        THEN OrderOf(SetMin(hits), rotoinversion)
        ELSE PyStr("irrational")

DefaultTol == <<1, 100>>

Unset == [type |-> "unset"]

(* the attributes of a new object before __init__ assigns any *)
NoAttrs ==
    [op |-> Unset, affine_matrix |-> Unset, m |-> Unset, det |-> Unset, type |-> Unset, axis |-> Unset,
     angle |-> Unset, order |-> Unset, rotation_order |-> Unset, inverted |-> Unset]

UnitVector == [type |-> "ndarray"]

(* mutant of RotoinversionOrder: the order of the rotational part is used *)
RotoinversionOrder_of_rotation(angle) == get_order(angle, FALSE, DefaultTol)

(* self.order of a rotoinversion *)
RotoinversionOrder(angle) == get_order(angle, TRUE, DefaultTol)

(* the branches of __init__ that follow the assignment of self.m *)
Classify(m) ==
    IF ~is_orthogonal(m)
    THEN [type |-> PyStr("general"), axis |-> PyNone, angle |-> PyNone,
          order |-> PyNone, rotation_order |-> PyNone, inverted |-> Unset]
    ELSE IF Det(m) > 0
    THEN LET angle == RotvecAngle(m)
         IN  IF angle[1] = 0
             THEN [type |-> PyStr("identity"), axis |-> PyNone, angle |-> PyFloat(angle),
                   order |-> PyInt(1), rotation_order |-> PyInt(1),
                   inverted |-> PyBool(FALSE)]
             ELSE [type |-> PyStr("rotation"), axis |-> UnitVector, angle |-> PyFloat(angle),
                   order |-> get_order(angle, FALSE, DefaultTol),
                   rotation_order |-> get_order(angle, FALSE, DefaultTol),
                   inverted |-> PyBool(FALSE)]
    ELSE IF Det(m) < 0
    THEN LET angle == RotvecAngle(Negated(m))
         IN  IF angle[1] = 0
             THEN [type |-> PyStr("inversion"), axis |-> PyNone, angle |-> PyFloat(angle),
                   order |-> PyInt(2), rotation_order |-> PyInt(1),
                   inverted |-> PyBool(TRUE)]
             ELSE [type |-> PyStr("rotoinversion"), axis |-> UnitVector,
                   angle |-> PyFloat(angle),
                   order |-> RotoinversionOrder(angle),
                   rotation_order |-> get_order(angle, FALSE, DefaultTol),
                   inverted |-> PyBool(TRUE)]
    ELSE [type |-> PyStr("degenerate"), axis |-> PyNone, angle |-> PyNone,
          order |-> Unset, rotation_order |-> Unset, inverted |-> Unset]

(* an argument is a SymmOp, an ndarray (or np.matrix) of some shape, or     *)
(* anything else; only a SymmOp or a 3x3 array gives self.m a value         *)
HasLinearPart(op) ==
    \/ op.kind = "SymmOp"
    \/ op.kind = "ndarray" /\ op.shape = <<3, 3>>

(* OperationAnalyzer.__init__: the new object, or the exception raised by   *)
(* is_orthogonal(self.m) when self.m was never assigned; warnings counts    *)
(* the priority-1 messages passed to printx                                 *)
OperationAnalyzer(op) ==
    LET warnings == IF op.kind \in {"SymmOp", "ndarray"} THEN 0 ELSE 1
    IN  IF HasLinearPart(op)
        THEN [type |-> "OperationAnalyzer", warnings |-> warnings,
              self |-> [op |-> IF op.kind = "SymmOp" THEN op
                                       ELSE [kind |-> "SymmOp", m |-> op.m, t |-> <<0, 0, 0>>],
                        affine_matrix |-> IF op.kind = "SymmOp" THEN <<op.m, op.t>> ELSE Unset,
                        m |-> op.m,
                        det |-> Det(op.m)]
                       @@ Classify(op.m)]
        ELSE [type |-> "exception", val |-> "AttributeError", warnings |-> warnings,
              self |-> NoAttrs]

(* np.isclose(ratio, 1., atol=1e-2), with the default rtol=1e-5, for the    *)
(* ratio a/b of two angles; fabs tells whether np.fabs is applied first     *)
RatioIsCloseToOne(a, b, fabs) ==
    LET num == a[1] * b[2]
        den == a[2] * b[1]
        n == IF den < 0 THEN -num ELSE num
        d == Abs(den)
        r == IF fabs THEN Abs(n) ELSE n
    IN  Abs(r - d) * 100000 <= 1001 * d

(* the comparison made in either branch of is_conjugate once both objects  *)
(* are OperationAnalyzers; a branch that reaches no return gives None      *)
CompareTypes(self, opa2, fabs) ==
    IF opa2.type = self.type
    THEN IF self.type.val \in {"rotation", "rotoinversion"}
         THEN IF RatioIsCloseToOne(self.angle.val, opa2.angle.val, fabs)
              THEN PyBool(TRUE)
              ELSE PyNone
         ELSE IF self.type.val \in {"identity", "inversion"}
         THEN PyBool(TRUE)
         ELSE PyNone
    ELSE PyBool(FALSE)

(* OperationAnalyzer.is_conjugate; self is the attribute record of the     *)
(* object, op2 a SymmOp or an OperationAnalyzer                             *)
is_conjugate(self, op2) ==
    IF op2.type # "OperationAnalyzer"
    THEN CompareTypes(self, OperationAnalyzer(op2).self, TRUE)
    ELSE CompareTypes(self, op2.self, FALSE)

(* OperationAnalyzer.are_conjugate: opa1 is bound only when op1 is not an   *)
(* OperationAnalyzer; reading the unbound local raises UnboundLocalError    *)
are_conjugate(op1, op2) ==
    IF op1.type # "OperationAnalyzer"
    THEN LET opa1 == OperationAnalyzer(op1)
         IN  IF opa1.type = "exception"
             THEN PyRaise(opa1.val)
             ELSE is_conjugate(opa1.self, op2)
    ELSE PyRaise("UnboundLocalError")

-----------------------------------------------------------------------------
(* Inputs of the symmetry functions *)

(* largest amount added to one entry of an orthogonal matrix *)
MaxPerturb == 1

(* largest numerator and denominator of an angle given to get_order *)
MaxNumer == 3

MaxDenom == 64

(* the 48 orthogonal integer matrices: signed permutation matrices *)
SignedPermutations ==
    {[i \in 1..3 |-> [j \in 1..3 |-> IF j = perm[i] THEN sign[i] ELSE 0]] :
        perm \in Permutations({1, 2, 3}), sign \in [1..3 -> {-1, 1}]}

(* one entry of an orthogonal matrix changed: shears, scalings, collapses *)
Perturbed ==
    {[i \in 1..3 |-> [j \in 1..3 |-> IF <<i, j>> = at THEN m[i][j] + by ELSE m[i][j]]] :
        m \in SignedPermutations, at \in (1..3) \X (1..3), by \in 1..MaxPerturb}

SymmOpOf(m) == [type |-> "SymmOp", kind |-> "SymmOp", m |-> m, t |-> <<0, 0, 0>>]

ArrayOf(m) == [type |-> "ndarray", kind |-> "ndarray", shape |-> <<3, 3>>, m |-> m]

(* arguments of the constructor *)
AnalyzerInputs ==
    {SymmOpOf(m) : m \in SignedPermutations \cup Perturbed}
        \cup {ArrayOf(m) : m \in SignedPermutations \cup Perturbed}
        \cup {[type |-> "ndarray", kind |-> "ndarray", shape |-> <<2, 2>>],
              [type |-> "ndarray", kind |-> "ndarray", shape |-> <<3>>],
              [type |-> "list", kind |-> "list"],
              [type |-> "NoneType", kind |-> "NoneType"]}

(* a few linear parts that are not orthogonal *)
GeneralParts ==
    {<< <<2, 0, 0>>, <<0, 1, 0>>, <<0, 0, 1>> >>,
     << <<1, 1, 0>>, <<0, 1, 0>>, <<0, 0, 1>> >>,
     << <<1, 0, 0>>, <<0, 1, 0>>, <<0, 0, 0>> >>}

ConjugateParts == SignedPermutations \cup GeneralParts

Angles == {<<p, q>> : p \in 0..MaxNumer, q \in 1..MaxDenom}

OrderTols == {DefaultTol, <<1, 20>>}

(* either documented form of an operand of are_conjugate *)
ConjugateOperands ==
    {SymmOpOf(m) : m \in ConjugateParts}
        \cup {OperationAnalyzer(SymmOpOf(m)) : m \in ConjugateParts}

InitSym ==
    /\ pc = "idle"
    /\ ret = <<>>
    /\ \/ /\ fn = "OperationAnalyzer"
          /\ args \in [op : AnalyzerInputs]
       \/ /\ fn = "get_order"
          /\ args \in [angle : Angles, rotoinversion : BOOLEAN, tol : OrderTols]
       \/ /\ fn = "is_conjugate"
          /\ args \in [self : {OperationAnalyzer(SymmOpOf(m)) : m \in ConjugateParts},
                       op2 : {SymmOpOf(m) : m \in ConjugateParts}
                                \cup {OperationAnalyzer(SymmOpOf(m)) : m \in ConjugateParts}]
       \/ /\ fn = "are_conjugate"
          /\ args \in [op1 : ConjugateOperands, op2 : ConjugateOperands]

CallOperationAnalyzer ==
    /\ pc = "idle"
    /\ fn = "OperationAnalyzer"
    /\ ret' = OperationAnalyzer(args.op)
    /\ pc' = "done"
    /\ UNCHANGED <<fn, args>>

CallGetOrder ==
    /\ pc = "idle"
    /\ fn = "get_order"
    /\ ret' = get_order(args.angle, args.rotoinversion, args.tol)
    /\ pc' = "done"
    /\ UNCHANGED <<fn, args>>

CallIsConjugate ==
    /\ pc = "idle"
    /\ fn = "is_conjugate"
    /\ ret' = is_conjugate(args.self.self, args.op2)
    /\ pc' = "done"
    /\ UNCHANGED <<fn, args>>

CallAreConjugate ==
    /\ pc = "idle"
    /\ fn = "are_conjugate"
    /\ ret' = are_conjugate(args.op1, args.op2)
    /\ pc' = "done"
    /\ UNCHANGED <<fn, args>>

NextSym ==
    \/ CallOperationAnalyzer
    \/ CallGetOrder
    \/ CallIsConjugate
    \/ CallAreConjugate

SpecSym == InitSym /\ [][NextSym]_vars

-----------------------------------------------------------------------------
(* Reference notions used to state the symmetry claims *)

Mirror == << <<1, 0, 0>>, <<0, 1, 0>>, <<0, 0, -1>> >>

(* the three-fold rotation about the body diagonal, and its rotoinversion *)
ThreeFold == << <<0, 0, 1>>, <<1, 0, 0>>, <<0, 1, 0>> >>

BarThree == Negated(ThreeFold)

(* C8: the classification of an orthogonal linear part is decided by its    *)
(* determinant and rotation angle: identity (order 1, rotation_order 1),    *)
(* rotation (order = rotation_order = get_order(angle)), inversion (order   *)
(* 2, rotation_order 1), or rotoinversion (rotation_order =                 *)
(* get_order(angle), order = get_order(angle, rotoinversion=True)); a       *)
(* reflection is a rotoinversion of order 2 and -3 has order 6; a           *)
(* non-orthogonal part is general with axis, angle, order, rotation_order   *)
(* all None.                                                                *)
C8_Classification ==
    (Called("OperationAnalyzer") /\ HasLinearPart(args.op)) =>
        LET m == args.op.m
            o == ret.self
            proper == IF Det(m) > 0 THEN m ELSE Negated(m)
        IN  /\ ret.type = "OperationAnalyzer"
            /\ MatMul(m, Transpose(m)) # Eye3 =>
                  /\ o.type = PyStr("general")
                  /\ o.axis = PyNone /\ o.angle = PyNone
                  /\ o.order = PyNone /\ o.rotation_order = PyNone
            /\ (MatMul(m, Transpose(m)) = Eye3 /\ Det(m) > 0 /\ Trace(proper) = 3) =>
                  /\ o.type = PyStr("identity")
                  /\ o.order = PyInt(1) /\ o.rotation_order = PyInt(1)
            /\ (MatMul(m, Transpose(m)) = Eye3 /\ Det(m) > 0 /\ Trace(proper) # 3) =>
                  /\ o.type = PyStr("rotation")
                  /\ o.order = get_order(o.angle.val, FALSE, DefaultTol)
                  /\ o.rotation_order = o.order
            /\ (MatMul(m, Transpose(m)) = Eye3 /\ Det(m) < 0 /\ Trace(proper) = 3) =>
                  /\ o.type = PyStr("inversion")
                  /\ o.order = PyInt(2) /\ o.rotation_order = PyInt(1)
            /\ (MatMul(m, Transpose(m)) = Eye3 /\ Det(m) < 0 /\ Trace(proper) # 3) =>
                  /\ o.type = PyStr("rotoinversion")
                  /\ o.rotation_order = get_order(o.angle.val, FALSE, DefaultTol)
                  /\ o.order = get_order(o.angle.val, TRUE, DefaultTol)
            /\ m = Mirror => (o.type = PyStr("rotoinversion") /\ o.order = PyInt(2))
            /\ m = BarThree =>
                  (o.type = PyStr("rotoinversion") /\ o.order = PyInt(6)
                      /\ o.rotation_order = PyInt(3))

(* C8 witness: the rotoinversion -3 has been classified *)
C8_Witness ==
    /\ Called("OperationAnalyzer")
    /\ args.op = SymmOpOf(BarThree)
    /\ ret.self.type = PyStr("rotoinversion")
    /\ ret.self.order = PyInt(6)

(* n*angle/(2*pi) is within tol of some integer k, for the angle <<p, q>> *)
NearAnInteger(n, angle, tol) ==
    \E k \in 0..((n * angle[1]) \div angle[2] + 1) :
        Abs(n * angle[1] - k * angle[2]) * tol[2] <= tol[1] * angle[2]

(* C9: get_order returns the smallest n in 1..60 with n*angle/(2*pi) within *)
(* tol of an integer, doubled when rotoinversion is true and n is odd, and  *)
(* "irrational" when there is none; for angle = 2*pi/k, 1 <= k <= 60 and    *)
(* the default tol the rotation order is k; a rotoinversion order is even   *)
(* or "irrational".                                                         *)
C9_GetOrder ==
    Called("get_order") =>
        LET good == {n \in 1..60 : NearAnInteger(n, args.angle, args.tol)}
            least == SetMin(good)
        IN  /\ good = {} => ret = PyStr("irrational")
            /\ good # {} =>
                  ret = PyInt(IF args.rotoinversion /\ least % 2 = 1 THEN 2 * least ELSE least)
            /\ (args.angle[1] = 1 /\ args.angle[2] <= 60 /\ args.tol = DefaultTol
                  /\ ~args.rotoinversion) => ret = PyInt(args.angle[2])
            /\ args.rotoinversion => (ret = PyStr("irrational") \/ ret.val % 2 = 0)

(* C9 witness: the order of the rotoinversion with angle 2*pi/3 is doubled *)
C9_Witness ==
    /\ Called("get_order")
    /\ args.angle = <<1, 3>>
    /\ args.rotoinversion
    /\ args.tol = DefaultTol
    /\ ret = PyInt(6)

(* both operations of an is_conjugate call, classified *)
TypeOfSelf == args.self.self.type.val

TypeOfOther ==
    IF args.op2.type = "OperationAnalyzer"
    THEN args.op2.self.type.val
    ELSE OperationAnalyzer(args.op2).self.type.val

AngleOfSelf == args.self.self.angle.val

AngleOfOther ==
    IF args.op2.type = "OperationAnalyzer"
    THEN args.op2.self.angle.val
    ELSE OperationAnalyzer(args.op2).self.angle.val

(* C10: is_conjugate returns a boolean: False if the types differ; True if  *)
(* both are identity or both inversion; if both are rotation or both        *)
(* rotoinversion, True iff |angle_a / angle_b| is within 1e-2 of 1 and      *)
(* False otherwise.                                                        *)
C10_ConjugateBoolean ==
    (Called("is_conjugate")
        /\ (TypeOfSelf # TypeOfOther
              \/ TypeOfSelf \in {"identity", "inversion", "rotation", "rotoinversion"})) =>
        /\ ret.type = "bool"
        /\ TypeOfSelf # TypeOfOther => ret.val = FALSE
        /\ (TypeOfSelf = TypeOfOther /\ TypeOfSelf \in {"identity", "inversion"}) =>
              ret.val = TRUE
        /\ (TypeOfSelf = TypeOfOther /\ TypeOfSelf \in {"rotation", "rotoinversion"}) =>
              ret.val = (Abs(AngleOfSelf[1] * AngleOfOther[2] - AngleOfSelf[2] * AngleOfOther[1]) * 100
                            <= AngleOfSelf[2] * AngleOfOther[1])

(* the analyzer of an operand given in either form *)
AnalyzerOf(op) == IF op.type = "OperationAnalyzer" THEN op ELSE OperationAnalyzer(op)

(* C11: are_conjugate(op1, op2) returns what OperationAnalyzer(op1)         *)
(* .is_conjugate(op2) returns, for op1 a SymmOp or an OperationAnalyzer,    *)
(* and never fails because of the form of op1.                              *)
C11_AreConjugateEitherForm ==
    Called("are_conjugate") =>
        /\ ret.type # "exception"
        /\ ret = is_conjugate(AnalyzerOf(args.op1).self, args.op2)

(* the part of C11 that the code keeps: op1 given as a SymmOp *)
C11_SymmOpForm ==
    (Called("are_conjugate") /\ args.op1.type = "SymmOp") =>
        ret = is_conjugate(OperationAnalyzer(args.op1).self, args.op2)

(* C16: constructing an OperationAnalyzer from something that is neither a *)
(* SymmOp nor a 3x3 array (an array of another shape included) emits a      *)
(* priority-1 advisory and completes without raising, leaving type, axis,   *)
(* angle and order unassigned.                                              *)
C16_AdvisoryThenUnclassified ==
    (Called("OperationAnalyzer") /\ ~HasLinearPart(args.op)) =>
        /\ ret.type = "OperationAnalyzer"
        /\ ret.warnings = 1
        /\ ret.self.type = Unset /\ ret.self.axis = Unset
        /\ ret.self.angle = Unset /\ ret.self.order = Unset

(* the scalar engine applied to the displacement from points1[i] to points2[j] *)
ScalarEntry(i, j) ==
    distance(VecSub(args.points2[j], args.points1[i]), args.lattice, args.PBC)

(* C17 (as stated): for all point sets, every lattice (skewed ones         *)
(* included) and every flags, distance_matrix(P1, P2, L, flags)[i][j]       *)
(* equals distance(P2[j] - P1[i], L, flags).                                *)
C17_EnginesAgree ==
    CalledMatrix =>
        \A i \in 1..Len(args.points1), j \in 1..Len(args.points2) :
            ret[i][j] = ScalarEntry(i, j)

(* C17 (amended): the two engines agree on every pair when the lattice is *)
(* diagonal or no axis is periodic.                                         *)
C17_EnginesAgreeDiagonal ==
    (CalledMatrix /\ (IsDiagonal(args.lattice) \/ args.PBC = <<0, 0, 0>>)) =>
        \A i \in 1..Len(args.points1), j \in 1..Len(args.points2) :
            ret[i][j] = ScalarEntry(i, j)

(* C17 witness: a periodic cubic cell, two points whose folds are on       *)
(* opposite sides of the cell, and the pair is nearer through the boundary *)
C17_Witness ==
    /\ CalledMatrix
    /\ args.lattice = Cubic10
    /\ args.PBC = <<1, 1, 1>>
    /\ args.points1[1] = <<0, 0, 0>>
    /\ args.points2[1] = <<-25, 125, 50>>
    /\ ret[1][1] = ScalarEntry(1, 1)
    /\ ret[1][1] < Norm2(Dot(filtered_coords(VecSub(args.points2[1], args.points1[1]), args.PBC),
                             args.lattice))

-----------------------------------------------------------------------------
(* Equality of operations.  An operation is [m, t]: the entries of the     *)
(* linear part and of the translation are integers in units of 1/OpUnit;   *)
(* rtol and atol are in the same units.                                     *)

OpUnit == 100 * 100

(* np.allclose(m1, m2, rtol=rtol, atol=atol): |a - b| <= atol + rtol*|b| *)
AllClose(m1, m2, rtol, atol) ==
    \A i \in 1..3, j \in 1..3 :
        Abs(m1[i][j] - m2[i][j]) * OpUnit <= atol * OpUnit + rtol * Abs(m2[i][j])

(* mutant of FoldPeriodic: every axis is folded, whatever PBC says *)
FoldPeriodic_every_axis(difference, PBC) ==
    [i \in 1..3 |-> difference[i] - (difference[i] \div OpUnit) * OpUnit]

(* for i, a in enumerate(PBC): if a: difference[i] -= np.floor(difference[i]) *)
FoldPeriodic(difference, PBC) ==
    [i \in 1..3 |-> IF PBC[i] # 0
                    THEN difference[i] - (difference[i] \div OpUnit) * OpUnit
                    ELSE difference[i]]

(* are_equal: the value returned; difference is a new array, so neither    *)
(* operation is written to                                                  *)
are_equal(op1, op2, PBC, rtol, atol) ==
    IF ~AllClose(op1.m, op2.m, rtol, atol)
    THEN PyBool(FALSE)
    ELSE LET difference == FoldPeriodic(VecSub(op2.t, op1.t), PBC)
         IN  IF Norm2(difference) < rtol * rtol
             THEN PyBool(TRUE)
             ELSE PyBool(FALSE)

(* Inputs of are_equal *)

(* a linear part with exact entries, in units of 1/OpUnit *)
Exact(m) == [i \in 1..3 |-> [j \in 1..3 |-> OpUnit * m[i][j]]]

FourFoldZ == << <<0, -1, 0>>, <<1, 0, 0>>, <<0, 0, 1>> >>

(* one entry of a linear part moved by a small amount *)
Nudged(m, i, j, by) ==
    [a \in 1..3 |-> [b \in 1..3 |-> IF <<a, b>> = <<i, j>> THEN m[a][b] + by ELSE m[a][b]]]

EqualParts ==
    {Exact(Eye3), Exact(FourFoldZ),
     Nudged(Exact(Eye3), 1, 1, 15), Nudged(Exact(Eye3), 1, 1, 25),
     Nudged(Exact(Eye3), 1, 2, 5), Nudged(Exact(Eye3), 1, 2, 15)}

(* translations: near zero, near one on either side, a half, a whole cell *)
EqualShifts ==
    {<<x, y, 0>> : x \in {0, 5, -5, 9995, 10005}, y \in {0, 8, -10000}}

EqualOps == [m : EqualParts, t : EqualShifts]

EqualFlags == {<<0, 0, 0>>, <<1, 0, 0>>, <<1, 1, 1>>}

(* rtol, atol *)
EqualTols == {<<10, 10>>, <<100, 10>>, <<10, 0>>}

-----------------------------------------------------------------------------
(* Projection.  A point is [kind, n, d]: the vector n / d in units of      *)
(* 1/Unit, d > 0, held in a numpy array or in a list; an operation is      *)
(* [m, t] with an integer linear part and a translation in units of 1/Unit *)

RECURSIVE GCD(_, _)
GCD(a, b) == IF b = 0 THEN a ELSE GCD(b, a % b)

(* the same vector in lowest terms *)
Lowest(v) ==
    LET g == GCD(GCD(GCD(Abs(v.n[1]), Abs(v.n[2])), Abs(v.n[3])), v.d)
    IN  [kind |-> v.kind, n |-> <<v.n[1] \div g, v.n[2] \div g, v.n[3] \div g>>, d |-> v.d \div g]

(* op.rotation_matrix.T[k]: column k of the linear part *)
BasisVector(m, k) == <<m[1][k], m[2][k], m[3][k]>>

InnerProduct(a, b) == a[1] * b[1] + a[2] * b[2] + a[3] * b[3]

(* b**2, or 1 for a basis vector that is skipped *)
SquaredLength(m, k) ==
    IF Norm2(BasisVector(m, k)) = 0 THEN 1 ELSE Norm2(BasisVector(m, k))

(* basis_vector*(np.dot(point, basis_vector)/(b**2)) over the denominator  *)
(* den, a multiple of b**2; zero for a basis vector of zero length         *)
ProjectionTerm(n, m, k, den) ==
    IF Norm2(BasisVector(m, k)) = 0
    THEN <<0, 0, 0>>
    ELSE VecScale(InnerProduct(n, BasisVector(m, k)) * (den \div SquaredLength(m, k)),
                  BasisVector(m, k))

(* point -= translation *)
MovedPoint(point, translation) == VecSub(point.n, VecScale(point.d, translation))

(* the branch PBC == [0,0,0]: val is the array returned, point the array   *)
(* the argument names after the call; a numpy array is changed in place by *)
(* point -= translation, for a list the name is bound to a new array       *)
ProjectFree(point, m, translation) ==
    LET moved == MovedPoint(point, translation)
        B == SquaredLength(m, 1) * SquaredLength(m, 2) * SquaredLength(m, 3)
        sum == VecAdd(VecAdd(ProjectionTerm(moved, m, 1, B), ProjectionTerm(moved, m, 2, B)),
                      ProjectionTerm(moved, m, 3, B))
        d == point.d * B
    IN  [val |-> [kind |-> "ndarray", n |-> VecAdd(sum, VecScale(d, translation)), d |-> d],
         point |-> [kind |-> "ndarray", n |-> moved, d |-> point.d]]

(* filtered_coords of a point n / d *)
FoldPoint(point, PBC) ==
    [kind |-> "ndarray",
     n |-> [i \in 1..3 |-> point.n[i] - (point.n[i] \div (point.d * Unit)) * point.d * Unit * PBC[i]],
     d |-> point.d]

(* the loop over the translation vectors: each call of the non-periodic    *)
(* branch is handed the same array, and leaves it moved; an entry is       *)
(* [new_vector, distance], the distance squared and over the square of the *)
(* denominator of new_vector, which is the same for all entries            *)
RECURSIVE ProjectLoop(_, _, _, _, _)
ProjectLoop(k, point, op, lattice, matrix) ==
    IF k > Len(matrix)
    THEN <<>>
    ELSE LET r == ProjectFree(point, op.m, VecAdd(op.t, VecScale(Unit, matrix[k])))
             B == r.val.d \div r.point.d
             gap == VecSub(r.val.n, VecScale(B, r.point.n))
         IN  <<[new_vector |-> r.val, distance |-> Norm2(Dot(gap, lattice))]>>
                 \o ProjectLoop(k + 1, r.point, op, lattice, matrix)

(* np.argmin: the first index of the least distance *)
ArgMin(entries) ==
    SetMin({i \in 1..Len(entries) :
               \A j \in 1..Len(entries) : entries[i].distance <= entries[j].distance})

(* filtered_coords(point): PBC takes its default *)
DefaultPBC == <<1, 1, 1>>

(* project_point: val is the array returned, point the caller's point      *)
(* after the call                                                          *)
project_point(point, op, lattice, PBC) ==
    IF PBC = <<0, 0, 0>>
    THEN LET r == ProjectFree(point, op.m, op.t)
         IN  [val |-> Lowest(r.val),
              point |-> IF point.kind = "ndarray" THEN [r.point EXCEPT !.kind = point.kind]
                        ELSE point]
    ELSE LET folded == FoldPoint(point, DefaultPBC)
             entries == ProjectLoop(1, folded, op, lattice, create_matrix(PBC))
             i == ArgMin(entries)
         IN  [val |-> Lowest(FoldPoint(entries[i].new_vector, PBC)), point |-> point]

(* Inputs of project_point *)

ProjectPoints ==
    {[kind |-> c, n |-> <<x, y, z>>, d |-> 1] :
        c \in {"ndarray", "list"}, x \in {-125, 30, 99}, y \in {0, 50, 125}, z \in {0, 30}}

(* x,y,z *)
WholeSpace == [m |-> Eye3, t |-> <<0, 0, 0>>]

(* 1/2,1/2,0 *)
FixedPoint == [m |-> << <<0, 0, 0>>, <<0, 0, 0>>, <<0, 0, 0>> >>, t |-> <<50, 50, 0>>]

(* x,0,1/2 *)
AxisLine == [m |-> << <<1, 0, 0>>, <<0, 0, 0>>, <<0, 0, 0>> >>, t |-> <<0, 0, 50>>]

(* x,y,1/4 *)
BasalPlane == [m |-> << <<1, 0, 0>>, <<0, 1, 0>>, <<0, 0, 0>> >>, t |-> <<0, 0, 25>>]

(* x,x,0 *)
DiagonalLine == [m |-> << <<1, 0, 0>>, <<1, 0, 0>>, <<0, 0, 0>> >>, t |-> <<0, 0, 0>>]

(* x,y,x+y: the basis vectors (1,0,1) and (0,1,1) are not orthogonal *)
TiltedPlane == [m |-> << <<1, 0, 0>>, <<0, 1, 0>>, <<1, 1, 0>> >>, t |-> <<0, 0, 0>>]

ProjectOps == {WholeSpace, FixedPoint, AxisLine, BasalPlane, DiagonalLine, TiltedPlane}

ProjectLattices == {Eye3, Ortho, Skew}

ProjectFlags == {<<0, 0, 0>>, <<1, 0, 0>>, <<0, 0, 1>>, <<1, 1, 0>>, <<1, 1, 1>>}

InitOps ==
    /\ pc = "idle"
    /\ ret = <<>>
    /\ \/ /\ fn = "are_equal"
          /\ args \in [op1 : EqualOps, op2 : EqualOps, PBC : EqualFlags, tols : EqualTols]
       \/ /\ fn = "project_point"
          /\ args \in [point : ProjectPoints, op : ProjectOps,
                       lattice : ProjectLattices, PBC : ProjectFlags]

CallAreEqual ==
    /\ pc = "idle"
    /\ fn = "are_equal"
    /\ ret' = are_equal(args.op1, args.op2, args.PBC, args.tols[1], args.tols[2])
    /\ pc' = "done"
    /\ UNCHANGED <<fn, args>>

(* the call returns val and leaves the caller's point as the branch taken  *)
(* left it                                                                  *)
CallProjectPoint ==
    /\ pc = "idle"
    /\ fn = "project_point"
    /\ LET r == project_point(args.point, args.op, args.lattice, args.PBC)
       IN  /\ ret' = r.val
           /\ args' = [args EXCEPT !.point = r.point]
    /\ pc' = "done"
    /\ UNCHANGED fn

NextOps == CallAreEqual \/ CallProjectPoint

SpecOps == InitOps /\ [][NextOps]_vars

-----------------------------------------------------------------------------
(* Reference notions used to state the claims about operations *)

(* t2 - t1 with each periodic component reduced into [0, 1) *)
ReducedDifference(t1, t2, PBC) ==
    [i \in 1..3 |-> IF PBC[i] = 1 THEN (t2[i] - t1[i]) % OpUnit ELSE t2[i] - t1[i]]

(* what are_equal is to return for op1, op2 *)
EqualWithin(op1, op2, PBC, rtol, atol) ==
    /\ \A i \in 1..3, j \in 1..3 :
          Abs(op1.m[i][j] - op2.m[i][j]) * OpUnit <= atol * OpUnit + rtol * Abs(op2.m[i][j])
    /\ Norm2(ReducedDifference(op1.t, op2.t, PBC)) < rtol * rtol

C18_AreEqualSymmetric ==
    Called("are_equal") =>
        ret = are_equal(args.op2, args.op1, args.PBC, args.tols[1], args.tols[2])

(* the candidate for the offset v: the non-periodic projection of p onto   *)
(* the motion with translation t + v                                       *)
Candidate(p, op, v) == ProjectFree(p, op.m, VecAdd(op.t, VecScale(Unit, v))).val

(* |(q - p).lattice| squared, times the square of q's denominator; q.d is  *)
(* a multiple of p.d                                                       *)
Separation(q, p, lattice) ==
    Norm2(Dot(VecSub(q.n, VecScale(q.d \div p.d, p.n)), lattice))

(* the results C13 allows: the fold of a candidate nearest to p, where p   *)
(* is the fold of the point under the given flags                          *)
NearestProjections(point, op, lattice, PBC) ==
    LET p == FoldPoint(point, PBC)
        offsets == Range(create_matrix(PBC))
    IN  {Lowest(FoldPoint(Candidate(p, op, v), PBC)) :
            v \in {u \in offsets :
                      \A w \in offsets :
                          Separation(Candidate(p, op, u), p, lattice)
                              <= Separation(Candidate(p, op, w), p, lattice)}}

(* C13: with flags # [0,0,0], project_point returns                        *)
(* filtered_coords(q*, flags), q* the candidate at least Cartesian         *)
(* distance from p, every candidate being the non-periodic projection of   *)
(* the same p = fold of the point under the given flags.                   *)
C13_ProjectPeriodic ==
    (Called("project_point") /\ args.PBC # <<0, 0, 0>>) =>
        ret \in NearestProjections(args.point, args.op, args.lattice, args.PBC)

(* two points less than 1e-3 apart on every axis *)
ClosePoints(a, b) ==
    \A i \in 1..3 : Abs(a.n[i] * b.d - b.n[i] * a.d) * 1000 <= a.d * b.d * Unit

(* C14: for every point, motion, lattice and flags, project_point applied  *)
(* to its own result returns that result, up to numerical tolerance.       *)
C14_ProjectIdempotent ==
    Called("project_point") =>
        ClosePoints(project_point(ret, args.op, args.lattice, args.PBC).val, ret)

(* C15: project_point leaves the caller's point and the motion as they     *)
(* were, whatever the flags.                                               *)
C15_ProjectLeavesInputs ==
    [][(pc = "idle" /\ fn = "project_point") =>
          (args'.point = args.point /\ args'.op = args.op)]_vars

=============================================================================
